---- MODULE Spec2Model ----
(***************************************************************************)
(* A model of the Moebius strip calculator:                                *)
(*   - the numeric core (calculateMobiusStripData, generateMobiusGeometry  *)
(*     and their helpers),                                                 *)
(*   - the MobiusStrip component's geometry effect,                        *)
(*   - ParameterForm.handleInputChange.                                    *)
(*                                                                         *)
(* JavaScript numbers are modelled in fixed point: the integer n stands    *)
(* for the number n / Scale, and every arithmetic operation rounds its     *)
(* result to the nearest multiple of 1 / Scale (IEEE doubles round to the  *)
(* nearest double).  Counts and array indices (resolution, i, j, the index *)
(* buffer) are plain integers.  JavaScript arrays are sequences: element k *)
(* of an array is element k + 1 of the sequence.                           *)
(***************************************************************************)
EXTENDS Integers, Sequences, FiniteSets, TLC

VARIABLES
  params,        \* core: the MobiusStripParams the functions are applied to
  stripData,     \* core: what calculateMobiusStripData(params) returned
  geometry,      \* core: what generateMobiusGeometry(params) returned
  stripParams,   \* MobiusStrip: the params prop
  meshRef,       \* MobiusStrip: meshRef.current
  geometryRef,   \* MobiusStrip: geometryRef.current
  meshGeometry,  \* MobiusStrip: meshRef.current.geometry
  heap,          \* MobiusStrip: every BufferGeometry the component created
  effectPc,      \* MobiusStrip: the position inside the running effect
  changes,       \* MobiusStrip: the number of parameter changes delivered
  formParams,    \* ParameterForm: the params prop
  onChangeArg    \* ParameterForm: the argument of the last onChange call

coreVars  == <<params, stripData, geometry>>
stripVars == <<stripParams, meshRef, geometryRef, meshGeometry, heap, effectPc, changes>>
formVars  == <<formParams, onChangeArg>>
vars      == <<coreVars, stripVars, formVars>>

(***************************************************************************)
(* Fixed-point arithmetic.  The arithmetic primitives are functions, so    *)
(* that an operand is evaluated once, before the primitive is applied.     *)
(***************************************************************************)
S == 10 * 10 * 10
Scale == S * S

Num(n) == n * Scale

Abs(x) == IF x < 0 THEN -x ELSE x
Sgn(x) == IF x < 0 THEN -1 ELSE 1
Max(a, b) == IF a >= b THEN a ELSE b

\* const x = e; F(x)
Bind(e, F(_)) == CHOOSE y \in {F(x) : x \in {e}} : TRUE

\* a * b for a, b >= 0, computed in halves so that no intermediate product
\* leaves the 32-bit integers.
MulPos[a \in Nat, b \in Nat] ==
  LET a1 == a \div S   a0 == a % S
      b1 == b \div S   b0 == b % S
      t  == a1 * b0 + a0 * b1
  IN  a1 * b1 + (t \div S) + (((t % S) * S + a0 * b0 + (Scale \div 2)) \div Scale)

\* a * b
Mul[a \in Int, b \in Int] == Sgn(a) * Sgn(b) * MulPos[Abs(a), Abs(b)]

\* a / b for a >= 0, b > 0: long division, one decimal digit at a time.
DivDigits[k \in Nat, q \in Nat, r \in Nat, b \in Nat] ==
  IF k = 0 THEN IF 2 * r >= b THEN q + 1 ELSE q
  ELSE DivDigits[k \div 10, q * 10 + ((r * 10) \div b), (r * 10) % b, b]

DivPos[a \in Nat, b \in Nat] == DivDigits[Scale \div 10, a \div b, a % b, b]

\* a / b
Div[a \in Int, b \in Int] == Sgn(a) * Sgn(b) * DivPos[Abs(a), Abs(b)]

\* The integer square root, by Newton's iteration.
Newton[n \in Nat, g \in Nat] ==
  LET g2 == (g + (n \div g)) \div 2
  IN  IF g2 >= g THEN g ELSE Newton[n, g2]

ISqrt[n \in Nat] == IF n = 0 THEN 0 ELSE Newton[n, n]

\* Math.sqrt
Sqrt[x \in Nat] ==
  IF x = 0 THEN 0
  ELSE (ISqrt[x] * S + Div[x, ISqrt[x] * S] + 1) \div 2

\* Math.PI
Pi == 3141593

\* One step of Horner's rule for the Taylor series of cos and sin.
Horner[z \in Int, k \in Nat, acc \in Int] == Scale - (Mul[z, acc] \div k)

\* The Taylor polynomials of cos and sin in z = y * y, for 0 <= y <= Pi / 2.
CosPoly[z \in Int] ==
  Horner[z, 2, Horner[z, 12, Horner[z, 30, Horner[z, 56, Horner[z, 90,
         Horner[z, 132, Scale]]]]]]

SinPoly[y \in Int, z \in Int] ==
  Mul[y, Horner[z, 6, Horner[z, 20, Horner[z, 42, Horner[z, 72, Horner[z, 110,
         Horner[z, 156, Scale]]]]]]]

\* cos on [0, Pi]
CosHalfTurn[q \in Int] ==
  IF 2 * q > Pi THEN -CosPoly[Mul[Pi - q, Pi - q]] ELSE CosPoly[Mul[q, q]]

\* sin on [0, Pi]
SinHalfTurn[q \in Int] ==
  IF 2 * q > Pi THEN SinPoly[Pi - q, Mul[Pi - q, Pi - q]] ELSE SinPoly[q, Mul[q, q]]

\* Math.cos
Cos[x \in Int] ==
  IF x % (2 * Pi) > Pi THEN CosHalfTurn[2 * Pi - (x % (2 * Pi))]
  ELSE CosHalfTurn[x % (2 * Pi)]

\* Math.sin
Sin[x \in Int] ==
  IF x % (2 * Pi) > Pi THEN -SinHalfTurn[(x % (2 * Pi)) - Pi]
  ELSE SinHalfTurn[x % (2 * Pi)]

\* Math.floor, to a count
MathFloor(x) == x \div Scale

\* The literals 0.5 and k / 10
Half == Scale \div 2
Tenths(k) == k * (Scale \div 10)

Point3D == [x : Int, y : Int, z : Int]

(***************************************************************************)
(* Numbers that may not be finite.  Where the code can produce NaN or an   *)
(* infinity, a number is [nan, inf, val]: val in fixed point when finite,  *)
(* inf the sign of an infinity.                                            *)
(***************************************************************************)
JsNum(n) == [nan |-> FALSE, inf |-> 0, val |-> n]
NaN == [nan |-> TRUE, inf |-> 0, val |-> 0]
Infinity == [nan |-> FALSE, inf |-> 1, val |-> 0]
NegInfinity == [nan |-> FALSE, inf |-> -1, val |-> 0]
JsNumbers == [nan : BOOLEAN, inf : {-1, 0, 1}, val : Int]

IsFinite(x) == ~x.nan /\ x.inf = 0

\* A mutant of JsDivide: a zero divisor is guarded and gives 0.
JsDivideGuarded(a, b) ==
  IF b # 0 THEN JsNum(Div[a, b]) ELSE JsNum(0)

\* a / b of two finite numbers: x / 0 is an infinity with the sign of x, and
\* 0 / 0 is NaN; no division throws.
JsDivide(a, b) ==
  IF b # 0 THEN JsNum(Div[a, b])
  ELSE IF a = 0 THEN NaN
  ELSE IF a > 0 THEN Infinity ELSE NegInfinity

\* x * y: NaN is contagious, 0 * Infinity is NaN.
JsTimes(x, y) ==
  IF x.nan \/ y.nan THEN NaN
  ELSE IF x.inf # 0 \/ y.inf # 0
       THEN IF (x.inf = 0 /\ x.val = 0) \/ (y.inf = 0 /\ y.val = 0) THEN NaN
            ELSE IF (IF x.inf # 0 THEN x.inf ELSE Sgn(x.val))
                      = (IF y.inf # 0 THEN y.inf ELSE Sgn(y.val))
                 THEN Infinity ELSE NegInfinity
  ELSE JsNum(Mul[x.val, y.val])

JsPoint3D == [x : JsNumbers, y : JsNumbers, z : JsNumbers]

(***************************************************************************)
(* utils/mobiusCalculations                                                *)
(***************************************************************************)
\* A mutant of calculateMobiusPoint: the half angle u / 2 is written u, which
\* loses the half twist.
calculateMobiusPointNoTwist(u, v, R) ==
  [x |-> Mul[R + Mul[v, Cos[u]], Cos[u]],
   y |-> Mul[R + Mul[v, Cos[u]], Sin[u]],
   z |-> Mul[v, Sin[u]]]

calculateMobiusPoint(u, v, R) ==
  [x |-> Mul[R + Mul[v, Cos[Div[u, Num(2)]]], Cos[u]],
   y |-> Mul[R + Mul[v, Cos[Div[u, Num(2)]]], Sin[u]],
   z |-> Mul[v, Sin[Div[u, Num(2)]]]]

\* calculateMobiusPoint at a u that may not be finite (v and R are finite):
\* Math.cos and Math.sin of NaN or of an infinity are NaN, and NaN is
\* contagious in * and +, so every coordinate is NaN then.
calculateMobiusPointAt(u, v, R) ==
  IF IsFinite(u)
  THEN Bind(calculateMobiusPoint(u.val, v, R), LAMBDA pt :
         [x |-> JsNum(pt.x), y |-> JsNum(pt.y), z |-> JsNum(pt.z)])
  ELSE [x |-> NaN, y |-> NaN, z |-> NaN]

\* <<du, dv>>
calculatePartialDerivatives(u, v, R) ==
  LET du == [x |-> -Mul[R + Mul[v, Cos[Div[u, Num(2)]]], Sin[u]]
                   - Mul[Mul[Div[v, Num(2)], Sin[Div[u, Num(2)]]], Cos[u]],
             y |-> Mul[R + Mul[v, Cos[Div[u, Num(2)]]], Cos[u]]
                   - Mul[Mul[Div[v, Num(2)], Sin[Div[u, Num(2)]]], Sin[u]],
             z |-> Mul[Div[v, Num(2)], Cos[Div[u, Num(2)]]]]
      dv == [x |-> Mul[Cos[Div[u, Num(2)]], Cos[u]],
             y |-> Mul[Cos[Div[u, Num(2)]], Sin[u]],
             z |-> Sin[Div[u, Num(2)]]]
  IN  <<du, dv>>

\* A mutant of crossProduct: b is mistyped a.
crossProductSelf(a, b) ==
  [x |-> Mul[a.y, a.z] - Mul[a.z, a.y],
   y |-> Mul[a.z, a.x] - Mul[a.x, a.z],
   z |-> Mul[a.x, a.y] - Mul[a.y, a.x]]

crossProduct(a, b) ==
  [x |-> Mul[a.y, b.z] - Mul[a.z, b.y],
   y |-> Mul[a.z, b.x] - Mul[a.x, b.z],
   z |-> Mul[a.x, b.y] - Mul[a.y, b.x]]

magnitude(v) == Sqrt[Mul[v.x, v.x] + Mul[v.y, v.y] + Mul[v.z, v.z]]

distance(a, b) ==
  LET dx == b.x - a.x
      dy == b.y - a.y
      dz == b.z - a.z
  IN  Sqrt[Mul[dx, dx] + Mul[dy, dy] + Mul[dz, dz]]

\* A mutant of vSegments: the floor(resolution / 5) arm of the maximum is lost.
vSegmentsFixed(resolution) == 10

\* Math.max(10, Math.floor(resolution / 5))
vSegments(resolution) == Max(10, MathFloor(Div[Num(resolution), Num(5)]))

\* The loops are recursive functions of the loop's variables.
\* uStep and vStep are read inside the loops only, which are entered only
\* with resolution >= 1, where both divisions are finite.
calculateSurfaceArea(p) ==
  LET radius == p.radius
      width == p.width
      resolution == p.resolution
      uStep == Div[Mul[Num(2), Pi], Num(resolution)]
      vStep == Div[width, Num(vSegments(resolution))]
      jLoop[u \in Int, j \in Nat, area \in Int] ==
        IF j < vSegments(resolution)
        THEN jLoop[u, j + 1,
               Bind(Mul[Div[Num(j), Num(vSegments(resolution))] - Half, width], LAMBDA v :
               Bind(calculatePartialDerivatives(u, v, radius), LAMBDA d :
               Bind(crossProduct(d[1], d[2]), LAMBDA normal :
                 area + Mul[Mul[magnitude(normal), uStep], vStep])))]
        ELSE area
      iLoop[i \in Nat, area \in Int] ==
        IF i < resolution
        THEN iLoop[i + 1, jLoop[Mul[Num(i), uStep], 0, area]]
        ELSE area
  IN  iLoop[0, 0]

\* uStep is read inside the loop only, which is entered only with
\* resolution >= 1, where the division is finite.
calculateEdgeLength(p) ==
  LET radius == p.radius
      width == p.width
      resolution == p.resolution
      uStep == Div[Mul[Num(2), Pi], Num(resolution)]
      iLoop[i \in Nat, prevPoint \in Point3D, length \in Int] ==
        IF i <= resolution
        THEN Bind(calculateMobiusPoint(Mul[Num(i), uStep], Div[width, Num(2)], radius),
                  LAMBDA currentPoint :
                    iLoop[i + 1, currentPoint, length + distance(prevPoint, currentPoint)])
        ELSE length
  IN  iLoop[1, calculateMobiusPoint(0, Div[width, Num(2)], radius), 0]

\* points[i][j] of the code is points[i + 1][j + 1] here; a coordinate may
\* be NaN, so the points are JsPoint3D.  The two properties stay finite: with
\* a resolution below 1 their loops are not entered and they are 0.
calculateMobiusStripData(p) ==
  LET radius == p.radius
      width == p.width
      resolution == p.resolution
      uStep == JsDivide(Mul[Num(2), Pi], Num(resolution))
      jLoop[u \in JsNumbers, j \in Nat, row \in Seq(JsPoint3D)] ==
        IF j <= vSegments(resolution)
        THEN jLoop[u, j + 1,
               Append(row, calculateMobiusPointAt(u,
                        Mul[Div[Num(j), Num(vSegments(resolution))] - Half, width],
                        radius))]
        ELSE row
      iLoop[i \in Nat, points \in Seq(Seq(JsPoint3D))] ==
        IF i <= resolution
        THEN iLoop[i + 1, Append(points, jLoop[JsTimes(JsNum(Num(i)), uStep), 0, <<>>])]
        ELSE points
  IN  [points |-> iLoop[0, <<>>],
       properties |-> [surfaceArea |-> calculateSurfaceArea(p),
                       edgeLength |-> calculateEdgeLength(p)]]

(***************************************************************************)
(* utils/mobiusGeometry                                                    *)
(*                                                                         *)
(* The BufferGeometry is the record of its attributes: position and color  *)
(* (3 numbers per vertex) and the index.  The normal attribute that        *)
(* three.js's computeVertexNormals derives from them is not modelled.      *)
(***************************************************************************)
\* A mutant of vertexColor: |v| is divided by the width, not by half of it.
vertexColorFullWidth(v, width) ==
  Bind(Div[Abs(v), width], LAMBDA colorFactor :
    <<Tenths(2) + Mul[Tenths(3), colorFactor],
      Tenths(8) - Mul[Tenths(2), colorFactor],
      Tenths(6) + Mul[Tenths(2), colorFactor]>>)

\* the color pushed for a vertex at v: <<r, g, b>>
vertexColor(v, width) ==
  Bind(Div[Abs(v), Div[width, Num(2)]], LAMBDA colorFactor :
    <<Tenths(2) + Mul[Tenths(3), colorFactor],
      Tenths(8) - Mul[Tenths(2), colorFactor],
      Tenths(6) + Mul[Tenths(2), colorFactor]>>)

\* A mutant of cellTriangles: the second indices.push is lost.
cellTrianglesOnePush(i, j, vSeg) ==
  LET a == i * (vSeg + 1) + j
      b == a + 1
      c == a + (vSeg + 1)
      d == c + 1
  IN  <<a, b, d>>

\* A mutant of cellTriangles: the next row is taken one vertex too far.
cellTrianglesLongRow(i, j, vSeg) ==
  LET a == i * (vSeg + 1) + j
      b == a + 1
      c == a + (vSeg + 2)
      d == c + 1
  IN  <<a, b, d>> \o <<a, d, c>>

\* A mutant of cellTriangles: the cell is split along its other diagonal.
cellTrianglesOtherDiagonal(i, j, vSeg) ==
  LET a == i * (vSeg + 1) + j
      b == a + 1
      c == a + (vSeg + 1)
      d == c + 1
  IN  <<a, b, c>> \o <<b, d, c>>

\* the two triangles pushed for the grid cell (i, j)
cellTriangles(i, j, vSeg) ==
  LET a == i * (vSeg + 1) + j
      b == a + 1
      c == a + (vSeg + 1)
      d == c + 1
  IN  <<a, b, d>> \o <<a, d, c>>

\* the vertex pushed for (u, v): <<x, y, z>>
vertexPosition(u, v, radius) ==
  <<Mul[radius + Mul[v, Cos[Div[u, Num(2)]]], Cos[u]],
    Mul[radius + Mul[v, Cos[Div[u, Num(2)]]], Sin[u]],
    Mul[v, Sin[Div[u, Num(2)]]]>>

generateMobiusGeometry(p) ==
  LET radius == p.radius
      width == p.width
      resolution == p.resolution
      uSegments == resolution
      vSeg == vSegments(resolution)
      \* the vertex loops
      vjLoop[u \in Int, j \in Nat, vertices \in Seq(Int), colors \in Seq(Int)] ==
        IF j <= vSeg
        THEN Bind(Mul[Div[Num(j), Num(vSeg)] - Half, width], LAMBDA v :
               vjLoop[u, j + 1, vertices \o vertexPosition(u, v, radius),
                                colors \o vertexColor(v, width)])
        ELSE <<vertices, colors>>
      viLoop[i \in Nat, vc \in Seq(Seq(Int))] ==
        IF i <= uSegments
        THEN viLoop[i + 1, vjLoop[Mul[Mul[Div[Num(i), Num(uSegments)], Pi], Num(2)],
                                  0, vc[1], vc[2]]]
        ELSE vc
      \* the face loops
      fjLoop[i \in Nat, j \in Nat, indices \in Seq(Int)] ==
        IF j < vSeg
        THEN fjLoop[i, j + 1, indices \o cellTriangles(i, j, vSeg)]
        ELSE indices
      fiLoop[i \in Nat, indices \in Seq(Int)] ==
        IF i < uSegments
        THEN fiLoop[i + 1, fjLoop[i, 0, indices]]
        ELSE indices
  IN  Bind(viLoop[0, <<<<>>, <<>>>>], LAMBDA vc :
        [position |-> [array |-> vc[1], itemSize |-> 3],
         color    |-> [array |-> vc[2], itemSize |-> 3],
         index    |-> fiLoop[0, <<>>]])

(***************************************************************************)
(* The inputs the core functions are applied to.                           *)
(***************************************************************************)
\* How many resolutions above the smallest one, 10, and above the first one
\* whose floor(resolution / 5) exceeds 10, are drawn.
LowSpan == 1
HighSpan == 0

FirstWide == 5 * (10 + 1)
Resolutions == (10 .. 10 + LowSpan) \cup (FirstWide .. FirstWide + HighSpan)
Radii == {Half, Num(1), Num(5)}
Widths == {Tenths(1), Num(1), Num(2)}
ParamSet == [radius : Radii, width : Widths, resolution : Resolutions]

\* Calls outside the documented domain: resolutions below 1.
MaxBelow == 5
DegenerateResolutions == (0 - MaxBelow) .. 0
DegenerateParamSet == [radius : Radii, width : Widths, resolution : DegenerateResolutions]

\* A result not yet returned is <<>>, a returned result r is <<r>>.
Returned(x) == x # <<>>

CoreInit ==
  /\ params \in ParamSet
  /\ stripData = <<>>
  /\ geometry = <<>>

\* const data = calculateMobiusStripData(params)
CallCalculateMobiusStripData ==
  /\ stripData = <<>>
  /\ stripData' = <<calculateMobiusStripData(params)>>
  /\ UNCHANGED <<params, geometry>>

\* const g = generateMobiusGeometry(params)
CallGenerateMobiusGeometry ==
  /\ geometry = <<>>
  /\ geometry' = <<generateMobiusGeometry(params)>>
  /\ UNCHANGED <<params, stripData>>

CoreNext == CallCalculateMobiusStripData \/ CallGenerateMobiusGeometry

(***************************************************************************)
(* components/MobiusVisualization: the MobiusStrip component.              *)
(*                                                                         *)
(* heap[k] is the k-th BufferGeometry the component created, with whether  *)
(* dispose() was called on it; a reference is an index of heap, or 0 for   *)
(* null (geometryRef) and for the geometry the mesh was constructed with   *)
(* (meshGeometry).                                                         *)
(***************************************************************************)
MaxChanges == 3

StripParamSet == {p \in ParamSet : p.resolution = 10 /\ p.width = Num(1)}

StripInit ==
  /\ stripParams \in StripParamSet
  /\ meshRef = "null"
  /\ geometryRef = 0
  /\ meshGeometry = 0
  /\ heap = <<>>
  /\ effectPc = "unmounted"
  /\ changes = 0

\* The first render: the mesh is committed to meshRef and the effect is run.
Mount ==
  /\ effectPc = "unmounted"
  /\ meshRef' = "mesh"
  /\ effectPc' = "start"
  /\ UNCHANGED <<stripParams, geometryRef, meshGeometry, heap, changes>>

\* A render with a new params object: the effect's dependency changed, and
\* the effect is run after the render.
ParamsChange(p) ==
  /\ effectPc = "idle"
  /\ changes < MaxChanges
  /\ stripParams' = p
  /\ changes' = changes + 1
  /\ effectPc' = "start"
  /\ UNCHANGED <<meshRef, geometryRef, meshGeometry, heap>>

\* A mutant of disposeOld: the old geometry is not disposed.
disposeOldNever(h, ref) == h

\* if (meshRef.current) { if (geometryRef.current) geometryRef.current.dispose()
disposeOld(h, ref) ==
  IF ref # 0 THEN [h EXCEPT ![ref].disposed = TRUE] ELSE h

EffectDispose ==
  /\ effectPc = "start"
  /\ IF meshRef # "null"
     THEN /\ heap' = disposeOld(heap, geometryRef)
          /\ effectPc' = "generate"
     ELSE /\ heap' = heap
          /\ effectPc' = "idle"
  /\ UNCHANGED <<stripParams, meshRef, geometryRef, meshGeometry, changes>>

\* geometryRef.current = generateMobiusGeometry(params)
EffectGenerate ==
  /\ effectPc = "generate"
  /\ heap' = Append(heap, [geometry |-> generateMobiusGeometry(stripParams),
                           disposed |-> FALSE])
  /\ geometryRef' = Len(heap) + 1
  /\ effectPc' = "assign"
  /\ UNCHANGED <<stripParams, meshRef, meshGeometry, changes>>

\* meshRef.current.geometry = geometryRef.current
EffectAssign ==
  /\ effectPc = "assign"
  /\ meshGeometry' = geometryRef
  /\ effectPc' = "idle"
  /\ UNCHANGED <<stripParams, meshRef, geometryRef, heap, changes>>

StripNext ==
  \/ Mount
  \/ \E p \in StripParamSet : ParamsChange(p)
  \/ EffectDispose
  \/ EffectGenerate
  \/ EffectAssign

(***************************************************************************)
(* components/ParameterForm                                                *)
(*                                                                         *)
(* The form's numbers may be NaN (JsNum, NaN).  An input's text is a       *)
(* sequence of characters.                                                 *)
(***************************************************************************)
Digits == {"0", "2", "5"}
DigitVal(c) == CASE c = "0" -> 0 [] c = "2" -> 2 [] c = "5" -> 5
Chars == Digits \cup {".", "-", "a"}

\* The longest prefix of digits of a text.
RECURSIVE DigitPrefix(_)
DigitPrefix(text) ==
  IF text # <<>> /\ Head(text) \in Digits
  THEN <<Head(text)>> \o DigitPrefix(Tail(text))
  ELSE <<>>

\* The integer a sequence of digits denotes.
RECURSIVE DigitsValue(_)
DigitsValue(ds) ==
  IF ds = <<>> THEN 0
  ELSE DigitsValue(SubSeq(ds, 1, Len(ds) - 1)) * 10 + DigitVal(ds[Len(ds)])

\* The fraction 0.ds in fixed point (digits beyond the sixth are below 1 / Scale).
RECURSIVE FractionValue(_, _)
FractionValue(ds, unit) ==
  IF ds = <<>> \/ unit = 0 THEN 0
  ELSE DigitVal(Head(ds)) * unit + FractionValue(Tail(ds), unit \div 10)

\* parseFloat: the longest prefix [-]digits[.digits] of the text, NaN when
\* that prefix holds no digit.
parseFloat(value) ==
  LET neg      == value # <<>> /\ Head(value) = "-"
      unsigned == IF neg THEN Tail(value) ELSE value
      int      == DigitPrefix(unsigned)
      rest     == SubSeq(unsigned, Len(int) + 1, Len(unsigned))
      frac     == IF rest # <<>> /\ Head(rest) = "." THEN DigitPrefix(Tail(rest)) ELSE <<>>
      mag      == Num(DigitsValue(int)) + FractionValue(frac, Scale \div 10)
  IN  IF int = <<>> /\ frac = <<>> THEN NaN
      ELSE JsNum(IF neg THEN -mag ELSE mag)

\* Math.round: to the nearest integer, halves up
MathRound(x) ==
  IF x.nan THEN NaN
  ELSE IF x.inf # 0 THEN x
  ELSE JsNum(((x.val + Half) \div Scale) * Scale)

\* Math.max
MathMax(a, b) ==
  IF a.nan \/ b.nan THEN NaN
  ELSE IF a.inf # b.inf THEN (IF a.inf > b.inf THEN a ELSE b)
  ELSE IF a.inf # 0 \/ a.val >= b.val THEN a ELSE b

MaxTextLen == 3

\* The texts an input delivers: every text of at most MaxTextLen characters
\* whose integer part fixed point can hold.
RECURSIVE TextsOfLen(_)
TextsOfLen(n) ==
  IF n = 0 THEN {<<>>}
  ELSE {<<c>> \o t : c \in Chars, t \in TextsOfLen(n - 1)}

Fits(text) ==
  DigitsValue(DigitPrefix(IF text # <<>> /\ Head(text) = "-" THEN Tail(text) ELSE text))
    <= (2147483647 \div Scale) - 1

Texts == {t \in UNION {TextsOfLen(n) : n \in 0 .. MaxTextLen} : Fits(t)}

FieldNames == {"radius", "width", "resolution"}

FormParamSet ==
  [radius : {JsNum(Half), JsNum(Num(1))},
   width : {JsNum(Half)},
   resolution : {JsNum(Num(10)), JsNum(Num(50))}]

FormInit ==
  /\ formParams \in FormParamSet
  /\ onChangeArg = <<>>

\* handleInputChange, for the change event of the input `name` holding `value`
handleInputChange(name, value) ==
  LET numValue == parseFloat(value)
      processedValue == IF name = "resolution"
                        THEN MathMax(JsNum(Num(10)), MathRound(numValue))
                        ELSE numValue
  IN  /\ onChangeArg' = <<[formParams EXCEPT ![name] = processedValue]>>
      /\ UNCHANGED formParams

FormNext == \E name \in FieldNames, value \in Texts : handleInputChange(name, value)

(***************************************************************************)
(* The specifications: the core functions applied to drawn parameters, the *)
(* mounted MobiusStrip under parameter changes, and the ParameterForm      *)
(* under change events.  Each leaves the other parts where they start.     *)
(***************************************************************************)
CoreIdle ==
  /\ params = [radius |-> Num(1), width |-> Half, resolution |-> 10]
  /\ stripData = <<>>
  /\ geometry = <<>>

StripIdle ==
  /\ stripParams = [radius |-> Num(1), width |-> Num(1), resolution |-> 10]
  /\ meshRef = "null"
  /\ geometryRef = 0
  /\ meshGeometry = 0
  /\ heap = <<>>
  /\ effectPc = "unmounted"
  /\ changes = 0

FormIdle ==
  /\ formParams = [radius |-> JsNum(Num(1)), width |-> JsNum(Half),
                   resolution |-> JsNum(Num(50))]
  /\ onChangeArg = <<>>

Init == CoreInit /\ StripIdle /\ FormIdle
Next == CoreNext /\ UNCHANGED <<stripVars, formVars>>
Spec == Init /\ [][Next]_vars

\* calculateMobiusStripData called with a resolution below 1
InitDegenerate ==
  /\ params \in DegenerateParamSet
  /\ stripData = <<>>
  /\ geometry = <<>>
  /\ StripIdle
  /\ FormIdle
NextDegenerate == CallCalculateMobiusStripData /\ UNCHANGED <<stripVars, formVars>>
SpecDegenerate == InitDegenerate /\ [][NextDegenerate]_vars

InitStrip == CoreIdle /\ StripInit /\ FormIdle
NextStrip == StripNext /\ UNCHANGED <<coreVars, formVars>>
SpecStrip == InitStrip /\ [][NextStrip]_vars

InitForm == CoreIdle /\ StripIdle /\ FormInit
NextForm == FormNext /\ UNCHANGED <<coreVars, stripVars>>
SpecForm == InitForm /\ [][NextForm]_vars

(***************************************************************************)
(* The claims.                                                             *)
(***************************************************************************)
\* vSegments as the claims state it, in integer arithmetic.
ClaimedVSegments(resolution) ==
  IF resolution \div 5 > 10 THEN resolution \div 5 ELSE 10

\* C1: for every integer resolution >= 10 and any radius and width, the grid
\* calculateMobiusStripData returns has exactly resolution + 1 rows, and every
\* row holds exactly vSegments + 1 points, vSegments = max(10, floor(resolution / 5)).
C1_GridDimensions ==
  Returned(stripData) =>
    LET points == stripData[1].points
    IN  /\ Len(points) = params.resolution + 1
        /\ \A i \in 1 .. Len(points) :
             Len(points[i]) = ClaimedVSegments(params.resolution) + 1

\* C1's case: a grid was returned for a resolution whose floor(resolution / 5)
\* exceeds 10, so that the rows are longer than 11 points.
C1_Witness ==
  /\ Returned(stripData)
  /\ params.resolution \div 5 > 10
  /\ Len(stripData[1].points) = params.resolution + 1
  /\ Len(stripData[1].points[1]) > 11
\* The number of vertices the claims state for a resolution.
ClaimedVertexCount(resolution) ==
  (resolution + 1) * (ClaimedVSegments(resolution) + 1)

\* C2: for every integer resolution >= 10, generateMobiusGeometry emits exactly
\* (resolution + 1) * (vSegments + 1) vertices, with 3 numbers per vertex in
\* the position buffer and in the color buffer (so both have the same length),
\* and exactly 2 * resolution * vSegments triangles, i.e. an index buffer of
\* length 6 * resolution * vSegments.
C2_BufferSizes ==
  Returned(geometry) =>
    LET g == geometry[1]
        n == params.resolution
    IN  /\ g.position.itemSize = 3
        /\ g.color.itemSize = 3
        /\ Len(g.position.array) = 3 * ClaimedVertexCount(n)
        /\ Len(g.color.array) = Len(g.position.array)
        /\ Len(g.index) = 3 * (2 * n * ClaimedVSegments(n))

\* C2's case: a geometry was generated for a resolution whose vSegments
\* exceeds 10, and its buffers are filled.
C2_Witness ==
  /\ Returned(geometry)
  /\ ClaimedVSegments(params.resolution) > 10
  /\ Len(geometry[1].position.array) > 0
  /\ Len(geometry[1].index) = 6 * params.resolution * ClaimedVSegments(params.resolution)

\* C3: for every integer resolution >= 10, every index generateMobiusGeometry
\* pushes is a non-negative integer strictly less than the vertex count
\* (resolution + 1) * (vSegments + 1), and the largest index pushed is exactly
\* the vertex count minus one.
C3_IndicesInRange ==
  Returned(geometry) =>
    LET index == geometry[1].index
        count == ClaimedVertexCount(params.resolution)
    IN  /\ \A k \in 1 .. Len(index) : index[k] \in 0 .. count - 1
        /\ \E k \in 1 .. Len(index) : index[k] = count - 1

\* C3's case: a geometry with a non-empty index buffer whose last vertex,
\* number vertexCount - 1 of the position buffer, is referenced.
C3_Witness ==
  /\ Returned(geometry)
  /\ Len(geometry[1].index) > 0
  /\ \E k \in 1 .. Len(geometry[1].index) :
       3 * (geometry[1].index[k] + 1) = Len(geometry[1].position.array)

\* The row of the grid a vertex index lies in.
RowOf(index, resolution) == index \div (ClaimedVSegments(resolution) + 1)

\* C9: in generateMobiusGeometry every grid cell (i, j), 0 <= i < resolution,
\* 0 <= j < vSegments, yields exactly the two triangles (a, b, d) and (a, d, c)
\* with a = i * (vSegments + 1) + j, b = a + 1, c = a + vSegments + 1, d = c + 1,
\* and the index buffer holds nothing else; so every triangle uses vertices
\* of two adjacent rows i and i + 1 only, and no triangle holds both a vertex
\* of row `resolution` and a vertex of row 0.
C9_Triangulation ==
  Returned(geometry) =>
    LET index == geometry[1].index
        n  == params.resolution
        vs == ClaimedVSegments(n)
    IN  /\ Len(index) = 6 * n * vs
        /\ \A i \in 0 .. n - 1 : \A j \in 0 .. vs - 1 :
             LET a == i * (vs + 1) + j
                 b == a + 1
                 c == a + vs + 1
                 d == c + 1
                 at == 6 * (i * vs + j)
             IN  SubSeq(index, at + 1, at + 6) = <<a, b, d, a, d, c>>
        /\ \A t \in 0 .. (Len(index) \div 3) - 1 :
             LET rows == {RowOf(index[3 * t + k], n) : k \in 1 .. 3}
             IN  /\ \E i \in 0 .. n - 1 : rows = {i, i + 1}
                 /\ ~ (0 \in rows /\ n \in rows)

\* C9's case: a geometry was generated, it has a triangle with a vertex in
\* row `resolution` and a triangle with a vertex in row 0.
C9_Witness ==
  /\ Returned(geometry)
  /\ \E k \in 1 .. Len(geometry[1].index) :
       RowOf(geometry[1].index[k], params.resolution) = params.resolution
  /\ \E k \in 1 .. Len(geometry[1].index) :
       RowOf(geometry[1].index[k], params.resolution) = 0
\* C5: for all valid parameters (radius > 0, width > 0, integer resolution
\* >= 10), the properties calculateMobiusStripData returns have
\* surfaceArea > 0 and edgeLength > 0.
C5_PositiveProperties ==
  Returned(stripData) =>
    /\ stripData[1].properties.surfaceArea > 0
    /\ stripData[1].properties.edgeLength > 0

\* C5's case: properties were returned for valid parameters, among them a
\* strip wider than its diameter (width / 2 > radius).
C5_Witness ==
  /\ Returned(stripData)
  /\ params.radius > 0 /\ params.width > 2 * params.radius /\ params.resolution >= 10
  /\ stripData[1].properties.surfaceArea > 0
  /\ stripData[1].properties.edgeLength > 0

\* The v of column j, as the grid is specified: (j / vSegments - 0.5) * width.
ColumnV(j, p) ==
  Mul[Div[Num(j), Num(ClaimedVSegments(p.resolution))] - Half, p.width]

\* What the rounding of the arithmetic may add up to in a coordinate.
Tol == Scale \div 10000

\* A point of finite coordinates, as the grid holds it.
Finite3D(pt) == [x |-> JsNum(pt.x), y |-> JsNum(pt.y), z |-> JsNum(pt.z)]

Near(a, b) ==
  /\ IsFinite(a.x) /\ IsFinite(a.y) /\ IsFinite(a.z)
  /\ Abs(a.x.val - b.x) <= Tol
  /\ Abs(a.y.val - b.y) <= Tol
  /\ Abs(a.z.val - b.z) <= Tol

\* C6: calculateMobiusPoint(0, v, R) is (R + v, 0, 0) exactly; for every v # 0
\* the point at u = 2 pi differs from the point at u = 0 for the same v, and is
\* (up to rounding) the u = 0 point for -v; so in the grid, row `resolution`
\* and row 0 differ in every column whose v is not zero.
C6_HalfTwist ==
  Returned(stripData) =>
    LET points == stripData[1].points
        n == params.resolution
        R == params.radius
    IN  \A j \in 0 .. ClaimedVSegments(n) :
          LET v == ColumnV(j, params)
              first == points[1][j + 1]
              last == points[n + 1][j + 1]
          IN  /\ first = Finite3D([x |-> R + v, y |-> 0, z |-> 0])
              /\ calculateMobiusPoint(0, -v, R) = [x |-> R - v, y |-> 0, z |-> 0]
              /\ Near(last, calculateMobiusPoint(0, -v, R))
              /\ v # 0 => (last # first /\ Abs(last.x.val - first.x.val) > Tol)

\* C6's case: a grid with a column of non-zero v, whose points in row 0 and
\* in row `resolution` differ, and a column of v = 0.
C6_Witness ==
  /\ Returned(stripData)
  /\ \E j \in 0 .. ClaimedVSegments(params.resolution) :
       /\ ColumnV(j, params) # 0
       /\ stripData[1].points[params.resolution + 1][j + 1] # stripData[1].points[1][j + 1]
  /\ \E j \in 0 .. ClaimedVSegments(params.resolution) : ColumnV(j, params) = 0

\* The color of vertex (i, j) in a color buffer.
ColorAt(colors, i, j, resolution) ==
  SubSeq(colors, 3 * (i * (ClaimedVSegments(resolution) + 1) + j) + 1,
                 3 * (i * (ClaimedVSegments(resolution) + 1) + j) + 3)

\* C7: in generateMobiusGeometry the color of vertex (i, j) depends on the
\* column j only, not on the row i: it is (0.2 + 0.3 f, 0.8 - 0.2 f, 0.6 + 0.2 f)
\* with f = |v| / (width / 2) in [0, 1], so every component lies in [0, 1];
\* both edge columns j = 0 and j = vSegments get (0.5, 0.6, 0.8), and a column
\* with v = 0 gets (0.2, 0.8, 0.6).
C7_Colors ==
  Returned(geometry) =>
    LET colors == geometry[1].color.array
        n  == params.resolution
        vs == ClaimedVSegments(n)
    IN  \A j \in 0 .. vs :
          LET v == ColumnV(j, params)
              f == Div[Abs(v), Div[params.width, Num(2)]]
              c == ColorAt(colors, 0, j, n)
          IN  /\ f \in 0 .. Scale
              /\ c = <<Tenths(2) + Mul[Tenths(3), f],
                       Tenths(8) - Mul[Tenths(2), f],
                       Tenths(6) + Mul[Tenths(2), f]>>
              /\ \A k \in 1 .. 3 : c[k] \in 0 .. Scale
              /\ \A i \in 0 .. n : ColorAt(colors, i, j, n) = c
              /\ j \in {0, vs} => c = <<Tenths(5), Tenths(6), Tenths(8)>>
              /\ v = 0 => c = <<Tenths(2), Tenths(8), Tenths(6)>>

\* C7's case: a geometry whose first column has the edge color and one of
\* whose columns, at v = 0, has the centerline color, in its last row too.
C7_Witness ==
  /\ Returned(geometry)
  /\ ColorAt(geometry[1].color.array, 0, 0, params.resolution)
       = <<Tenths(5), Tenths(6), Tenths(8)>>
  /\ \E j \in 0 .. ClaimedVSegments(params.resolution) :
       /\ ColumnV(j, params) = 0
       /\ ColorAt(geometry[1].color.array, params.resolution, j, params.resolution)
            = <<Tenths(2), Tenths(8), Tenths(6)>>
\* A number the form hands on is in [lo, hi].
InRange(x, lo, hi) == IsFinite(x) /\ lo <= x.val /\ x.val <= hi

\* C4: after any change event handled by handleInputChange (any field name,
\* any input text), the parameters passed to onChange have radius in
\* [0.5, 5], width in [0.1, 2] and resolution an integer in [10, 200].
C4_ParamsInRange ==
  Returned(onChangeArg) =>
    /\ InRange(onChangeArg[1].radius, Half, Num(5))
    /\ InRange(onChangeArg[1].width, Tenths(1), Num(2))
    /\ InRange(onChangeArg[1].resolution, Num(10), Num(200))
    /\ onChangeArg[1].resolution.val % Scale = 0

\* The geometries the component created that are not disposed.
Undisposed == {k \in 1 .. Len(heap) : ~heap[k].disposed}

\* C10: for any sequence of parameter changes delivered to a mounted
\* MobiusStrip, at every moment at most one geometry the component created is
\* undisposed and every geometry it created but the most recent one is
\* disposed; and whenever a new geometry is stored in geometryRef, the one
\* retained before has already been disposed, and the mesh is only ever
\* assigned an undisposed geometry.
C10_DisposeBeforeReplace ==
  /\ [](/\ Cardinality(Undisposed) <= 1
        /\ \A k \in 1 .. Len(heap) - 1 : heap[k].disposed)
  /\ [][/\ geometryRef' # geometryRef =>
             /\ geometryRef # 0 => heap[geometryRef].disposed
             /\ ~heap'[geometryRef'].disposed
        /\ meshGeometry' # meshGeometry => ~heap'[meshGeometry'].disposed]_vars

\* C10's case: after a parameter change the effect has run to its end: two
\* geometries were created, the first is disposed, the second is on the mesh.
C10_Witness ==
  /\ changes >= 1
  /\ effectPc = "idle"
  /\ Len(heap) >= 2
  /\ heap[1].disposed
  /\ ~heap[Len(heap)].disposed
  /\ geometryRef = Len(heap)
  /\ meshGeometry = geometryRef
\* Every coordinate of the point is NaN or an infinity.
NonFinite3D(pt) == ~IsFinite(pt.x) /\ ~IsFinite(pt.y) /\ ~IsFinite(pt.z)

\* C11: called with resolution < 1, calculateMobiusStripData signals no error
\* and returns an empty grid or a degenerate grid whose coordinates are not
\* finite: with a negative resolution the grid has no row; with resolution 0
\* (2 pi / 0 is Infinity and u = 0 * Infinity is NaN) it has the single row 0,
\* of vSegments + 1 points, and every coordinate is NaN.  Both properties
\* are 0.
C11_DegenerateGrid ==
  (Returned(stripData) /\ params.resolution < 1) =>
    LET points == stripData[1].points
        properties == stripData[1].properties
    IN  /\ \/ points = <<>>
           \/ /\ Len(points) = 1
              /\ \A j \in 1 .. Len(points[1]) : NonFinite3D(points[1][j])
        /\ params.resolution < 0 => points = <<>>
        /\ params.resolution = 0 =>
             /\ Len(points) = 1
             /\ Len(points[1]) = ClaimedVSegments(0) + 1
             /\ \A j \in 1 .. Len(points[1]) :
                  points[1][j] = [x |-> NaN, y |-> NaN, z |-> NaN]
        /\ properties.surfaceArea = 0
        /\ properties.edgeLength = 0

\* C11's case: the call with resolution 0 has returned, and the grid is one
\* row of points whose coordinates are NaN.
C11_Witness ==
  /\ Returned(stripData)
  /\ params.resolution = 0
  /\ Len(stripData[1].points) = 1
  /\ Len(stripData[1].points[1]) > 0
  /\ stripData[1].points[1][1].x.nan

====
